---- MODULE Spec2Model ----
(***************************************************************************)
(* midi_to_mida.py: conversion of a parsed MIDI file (tracks of timed      *)
(* messages plus a ticks-per-beat resolution) into MIDA text.              *)
(*                                                                         *)
(* Strings are TLA+ strings built with \o, exactly as the Python builds    *)
(* them with join and concatenation.  The one departure: a TLA+ string     *)
(* literal can hold neither a backquote nor a non-ASCII character, so the  *)
(* backquote of the header line is written \u0060 and the quote-marker     *)
(* line (the single character U+2018 in the source) is written \u2018.     *)
(* Python's None is the value None below, a string no audicle can equal    *)
(* (every audicle starts with "*" or "(").                                 *)
(***************************************************************************)
EXTENDS Integers, Sequences, FiniteSets, TLC

VARIABLES mid, ticks_per_beat, pc, track_idx, drum_audicles, audicles,
          output, result, err

vars == <<mid, ticks_per_beat, pc, track_idx, drum_audicles, audicles,
          output, result, err>>

\* ------------------------------------------------------------------------
\* Messages, as mido hands them over.  A message is a record; hasattr(msg,
\* 'channel') is membership of "channel" in the record's domain.  A note_off
\* has mido's default velocity, 64, which the program never reads.
\* ------------------------------------------------------------------------

note_on(ch, n, v, t) ==
    [type |-> "note_on", channel |-> ch, note |-> n, velocity |-> v, time |-> t]

note_off(ch, n, t) ==
    [type |-> "note_off", channel |-> ch, note |-> n,
     velocity |-> 64, time |-> t]

control_change(ch, t) ==
    [type |-> "control_change", channel |-> ch, control |-> 7, value |-> 100,
     time |-> t]

set_tempo(t) ==
    [type |-> "set_tempo", tempo |-> 500000, time |-> t]

hasattr_channel(msg) == "channel" \in DOMAIN msg

DrumChannel == 9

None == "None"

Header == "\\u0060~#"

QuoteMarker == "\\u2018"

NoTracks == "// No tracks found."

\* ------------------------------------------------------------------------
\* Generic helpers standing for Python built-ins
\* ------------------------------------------------------------------------

\* sep.join(strs)
RECURSIVE join(_, _)
join(strs, sep) ==
    IF strs = <<>> THEN ""
    ELSE IF Len(strs) = 1 THEN strs[1]
    ELSE strs[1] \o sep \o join(Tail(strs), sep)

SetMin(S) == CHOOSE m \in S : \A y \in S : m <= y

\* sorted(S): the elements of a set of integers, ascending
RECURSIVE sorted(_)
sorted(S) ==
    IF S = {} THEN <<>>
    ELSE <<SetMin(S)>> \o sorted(S \ {SetMin(S)})

\* The keys of a dict in insertion order: first occurrences of notes in hits.
RECURSIVE insertion_order(_, _)
insertion_order(hits, seen) ==
    IF hits = <<>> THEN <<>>
    ELSE IF hits[1].note \in seen THEN insertion_order(Tail(hits), seen)
    ELSE <<hits[1].note>> \o insertion_order(Tail(hits), seen \cup {hits[1].note})

no_trim(tokens, rest) == tokens

\* while tokens and tokens[-1] == rest: tokens.pop()
RECURSIVE trim_trailing(_, _)
trim_trailing(tokens, rest) ==
    IF tokens # <<>> /\ tokens[Len(tokens)] = rest
    THEN trim_trailing(SubSeq(tokens, 1, Len(tokens) - 1), rest)
    ELSE tokens

\* ------------------------------------------------------------------------
\* is_drum_track
\* ------------------------------------------------------------------------

RECURSIVE is_drum_track_from(_, _)
is_drum_track_from(track, i) ==
    IF i > Len(track) THEN FALSE
    ELSE IF /\ track[i].type \in {"note_on", "note_off"}
            /\ hasattr_channel(track[i])
            /\ track[i].channel = DrumChannel
         THEN TRUE
         ELSE is_drum_track_from(track, i + 1)

is_drum_track_any_type(track) ==
    \E i \in 1..Len(track) :
        hasattr_channel(track[i]) /\ track[i].channel = DrumChannel

is_drum_track(track) == is_drum_track_from(track, 1)

\* ------------------------------------------------------------------------
\* midi_note_to_mida, quantize_ticks, velocity_to_typeset
\* ------------------------------------------------------------------------

note_names == <<"C", "C#", "D", "D#", "E", "F", "F#", "G", "G#", "A", "A#", "B">>

midi_note_to_mida(note) ==
    LET octave == (note \div 12) - 1
        name   == note_names[(note % 12) + 1]
    IN  name \o ToString(octave)

quantize_ticks(tpb, eighth) == IF eighth THEN tpb \div 2 ELSE tpb

AccentThreshold == 110

SoftThreshold == 40

velocity_to_typeset(velocity) ==
    IF velocity >= AccentThreshold THEN "^|"
    ELSE IF velocity <= SoftThreshold THEN "v|"
    ELSE "*|"

\* ((total_ticks + slot_ticks - 1) // slot_ticks) + 1, for slot_ticks # 0
slot_count_no_plus_one(total_ticks, slot_ticks) ==
    (total_ticks + slot_ticks - 1) \div slot_ticks

slot_count(total_ticks, slot_ticks) ==
    ((total_ticks + slot_ticks - 1) \div slot_ticks) + 1

\* ------------------------------------------------------------------------
\* extract_drum_audicles
\* ------------------------------------------------------------------------

\* The hits one track contributes, in message order: (note, abs_time, velocity)
RECURSIVE track_drum_hits(_, _, _)
track_drum_hits(track, i, abs_time) ==
    IF i > Len(track) THEN <<>>
    ELSE LET msg == track[i]
             t   == abs_time + msg.time
         IN  (IF /\ msg.type = "note_on"
                 /\ hasattr_channel(msg)
                 /\ msg.channel = DrumChannel
                 /\ msg.velocity > 0
              THEN <<[note |-> msg.note, abs_time |-> t, velocity |-> msg.velocity]>>
              ELSE <<>>)
             \o track_drum_hits(track, i + 1, t)

\* drum_events, flattened: every hit of every track in encounter order.
\* drum_events[note] of the source is events_of(hits, note).
RECURSIVE drum_events(_)
drum_events(tracks) ==
    IF tracks = <<>> THEN <<>>
    ELSE track_drum_hits(tracks[1], 1, 0) \o drum_events(Tail(tracks))

events_of(hits, note) == SelectSeq(hits, LAMBDA e : e.note = note)

drum_notes(hits) == {hits[i].note : i \in 1..Len(hits)}

RECURSIVE max_abs_time(_, _)
max_abs_time(hits, acc) ==
    IF hits = <<>> THEN acc
    ELSE max_abs_time(Tail(hits), IF hits[1].abs_time > acc THEN hits[1].abs_time ELSE acc)

drum_total_ticks(hits) == max_abs_time(hits, 0)

drum_slot(abs_time, eighth_ticks) == abs_time \div eighth_ticks

\* timeline[slot] for one note: the velocities written to each slot, in order
drum_timeline(events, eighth_ticks, slots) ==
    [s \in 1..slots |->
        LET inslot == SelectSeq(events,
                        LAMBDA e : drum_slot(e.abs_time, eighth_ticks) = s - 1)
        IN  [k \in 1..Len(inslot) |-> inslot[k].velocity]]

drum_token(velocities) ==
    IF velocities = <<>> THEN "_"
    ELSE IF Len(velocities) = 1 THEN velocity_to_typeset(velocities[1])
    ELSE "{" \o join([k \in 1..Len(velocities) |-> velocity_to_typeset(velocities[k])], " ")
             \o "}"

\* The tokens of one note's line after the trailing rests are trimmed
drum_tokens(hits, note, eighth_ticks, slots) ==
    LET timeline == drum_timeline(events_of(hits, note), eighth_ticks, slots)
        tokens   == [s \in 1..slots |-> drum_token(timeline[s])]
    IN  trim_trailing(tokens, "_")

RECURSIVE drum_lines(_, _, _, _)
drum_lines(hits, notes, eighth_ticks, slots) ==
    IF notes = <<>> THEN <<>>
    ELSE LET tokens == drum_tokens(hits, notes[1], eighth_ticks, slots)
         IN  (IF tokens = <<>> THEN <<>>
              ELSE <<"(" \o join(tokens, " ") \o ")">>)
             \o drum_lines(hits, Tail(notes), eighth_ticks, slots)

drum_note_order_inserted(hits) == insertion_order(hits, {})

drum_note_order(hits) == sorted(drum_notes(hits))

\* The division of line 50 raises ZeroDivisionError
drum_raises(tracks, tpb) ==
    drum_events(tracks) # <<>> /\ quantize_ticks(tpb, TRUE) = 0

extract_drum_audicles(tracks, tpb) ==
    LET hits == drum_events(tracks)
    IN  IF hits = <<>> THEN <<>>
        ELSE LET eighth_ticks == quantize_ticks(tpb, TRUE)
                 slots == slot_count(drum_total_ticks(hits), eighth_ticks)
             IN  drum_lines(hits, drum_note_order(hits), eighth_ticks, slots)

\* ------------------------------------------------------------------------
\* track_to_audicle
\* ------------------------------------------------------------------------

RECURSIVE track_events(_, _, _)
track_events(track, i, abs_time) ==
    IF i > Len(track) THEN <<>>
    ELSE LET msg == track[i]
             t   == abs_time + msg.time
         IN  (IF msg.type = "note_on" /\ msg.velocity > 0
              THEN <<[tick |-> t, note |-> msg.note, evtype |-> "on"]>>
              ELSE IF \/ msg.type = "note_off"
                      \/ (msg.type = "note_on" /\ msg.velocity = 0)
              THEN <<[tick |-> t, note |-> msg.note, evtype |-> "off"]>>
              ELSE <<>>)
             \o track_events(track, i + 1, t)

events_of_track(track) == track_events(track, 1, 0)

RECURSIVE max_tick(_, _)
max_tick(events, acc) ==
    IF events = <<>> THEN acc
    ELSE max_tick(Tail(events), IF events[1].tick > acc THEN events[1].tick ELSE acc)

\* max([e[0] for e in events]); ticks are sums of non-negative deltas
total_ticks_of(events) == max_tick(events, 0)

apply_event_off_clears(active_notes, ev) ==
    IF ev.evtype = "on" THEN active_notes \cup {ev.note}
    ELSE {}

apply_event(active_notes, ev) ==
    IF ev.evtype = "on" THEN active_notes \cup {ev.note}
    ELSE IF ev.evtype = "off" THEN active_notes \ {ev.note}
    ELSE active_notes

\* The inner while loop: event_idx counts the events consumed so far
RECURSIVE consume(_, _, _, _)
consume(events, event_idx, active_notes, slot_end) ==
    IF event_idx < Len(events) /\ events[event_idx + 1].tick < slot_end
    THEN consume(events, event_idx + 1,
                 apply_event(active_notes, events[event_idx + 1]), slot_end)
    ELSE [event_idx |-> event_idx, active_notes |-> active_notes]

\* The for loop over slots: the timeline and the final event_idx
RECURSIVE sweep(_, _, _, _, _, _)
sweep(events, sixteenth_ticks, slots, slot, event_idx, active_notes) ==
    IF slot >= slots THEN [timeline |-> <<>>, event_idx |-> event_idx]
    ELSE LET slot_start == slot * sixteenth_ticks
             slot_end   == slot_start + sixteenth_ticks
             c    == consume(events, event_idx, active_notes, slot_end)
             rest == sweep(events, sixteenth_ticks, slots, slot + 1,
                           c.event_idx, c.active_notes)
         IN  [timeline  |-> <<c.active_notes>> \o rest.timeline,
              event_idx |-> rest.event_idx]

melodic_sweep(events, sixteenth_ticks) ==
    sweep(events, sixteenth_ticks,
          slot_count(total_ticks_of(events), sixteenth_ticks), 0, 0, {})

chord_token(notes) ==
    LET notes_sorted == sorted(notes)
    IN  join([k \in 1..Len(notes_sorted) |-> midi_note_to_mida(notes_sorted[k])], "~")

mida_token_no_sustain(notes, prev_notes) ==
    IF notes = {} THEN "." ELSE chord_token(notes)

mida_token(notes, prev_notes) ==
    IF notes = {} THEN "."
    ELSE IF notes = prev_notes /\ notes # {} THEN "-"
    ELSE chord_token(notes)

\* The rendering loop, prev_notes threaded through it
RECURSIVE mida_tokens(_, _)
mida_tokens(timeline, prev_notes) ==
    IF timeline = <<>> THEN <<>>
    ELSE <<mida_token(timeline[1], prev_notes)>>
         \o mida_tokens(Tail(timeline), timeline[1])

\* The tokens of the line after the trailing "." are trimmed
melodic_tokens(timeline) == trim_trailing(mida_tokens(timeline, {}), ".")

render_timeline(timeline) ==
    LET tokens == melodic_tokens(timeline)
    IN  IF tokens = <<>> THEN None
        ELSE "*" \o join(tokens, " ") \o "*"

\* The division of line 91 raises ZeroDivisionError
track_raises(track, tpb) ==
    events_of_track(track) # <<>> /\ tpb \div 4 = 0

track_to_audicle(track, tpb) ==
    LET events == events_of_track(track)
        sixteenth_ticks == tpb \div 4
    IN  IF events = <<>> THEN None
        ELSE render_timeline(melodic_sweep(events, sixteenth_ticks).timeline)

\* ------------------------------------------------------------------------
\* main: the document
\* ------------------------------------------------------------------------

assemble_melodic_first(drums, melodic) ==
    IF melodic = <<>> /\ drums = <<>> THEN <<NoTracks>>
    ELSE IF Len(melodic) + Len(drums) = 1
         THEN drums \o <<IF melodic # <<>> THEN melodic[1] ELSE drums[1]>>
    ELSE <<Header, QuoteMarker>> \o melodic \o drums \o <<QuoteMarker>>

assemble_single_once(drums, melodic) ==
    IF melodic = <<>> /\ drums = <<>> THEN <<NoTracks>>
    ELSE IF Len(melodic) + Len(drums) = 1
         THEN <<IF melodic # <<>> THEN melodic[1] ELSE drums[1]>>
    ELSE <<Header, QuoteMarker>> \o drums \o melodic \o <<QuoteMarker>>

\* Lines 156-167: output after the extend, the branch and the inserts
assemble(drums, melodic) ==
    LET extended == IF drums # <<>> THEN drums ELSE <<>>
    IN  IF melodic = <<>> /\ drums = <<>> THEN extended \o <<NoTracks>>
        ELSE IF Len(melodic) + Len(drums) = 1
             THEN extended \o <<IF melodic # <<>> THEN melodic[1] ELSE drums[1]>>
        ELSE <<Header, QuoteMarker>> \o extended \o melodic \o <<QuoteMarker>>

\* ------------------------------------------------------------------------
\* The inputs: parsed MIDI files
\* ------------------------------------------------------------------------

MaxLen == 3

MaxTracks == 3

MaxMsgs == 3

Resolutions == {1, 200, 480}

\* Messages of the one-track files: attacks and releases of two pitches at
\* the same tick, a sixteenth later (at 480 ticks per beat) and a beat later,
\* a release written as a note_on of velocity 0, soft and accented drum hits,
\* and a meta message, which has no channel.
TrackPool ==
         {note_on(0, n, 80, d) : n \in {38, 60}, d \in {0, 120}}
    \cup {note_off(0, n, d) : n \in {38, 60}, d \in {0, 480}}
    \cup {note_on(0, 60, 0, 120)}
    \cup {note_on(DrumChannel, 38, v, 0) : v \in {40, 110}}
    \cup {set_tempo(0)}

\* Messages of the many-track files: two melodic attacks and a release, two
\* drum hits of different pitches and strengths, and a non-note message on
\* the drum channel.
FilePool ==
    { note_on(0, 60, 80, 0),
      note_on(0, 38, 80, 120),
      note_on(DrumChannel, 38, 80, 0),
      note_on(DrumChannel, 60, 110, 240),
      note_off(0, 60, 480),
      control_change(DrumChannel, 0) }

\* The sum of the first n entries of a sequence of numbers
RECURSIVE SumTo(_, _)
SumTo(lens, n) == IF n = 0 THEN 0 ELSE SumTo(lens, n - 1) + lens[n]

\* The track lengths of the files of k tracks holding at most m messages
TrackLengths(k, m) == {lens \in [1..k -> 0..m] : SumTo(lens, k) <= m}

\* The file whose tracks, of the given lengths, are cut from msgs in order
FileOf(msgs, lens) ==
    [i \in 1..Len(lens) |->
        SubSeq(msgs, SumTo(lens, i - 1) + 1, SumTo(lens, i))]

\* A file of one track of at most MaxLen messages of TrackPool
OneTrackFile(file) ==
    \E n \in 0..MaxLen : \E track \in [1..n -> TrackPool] : file = <<track>>

\* A file of at most MaxTracks tracks holding at most MaxMsgs messages of
\* FilePool in all
ManyTrackFile(file) ==
    \E k \in 0..MaxTracks : \E lens \in TrackLengths(k, MaxMsgs) :
        \E msgs \in [1..SumTo(lens, k) -> FilePool] : file = FileOf(msgs, lens)

\* ------------------------------------------------------------------------
\* main, from the loaded file to the document
\* ------------------------------------------------------------------------

Init ==
    /\ OneTrackFile(mid) \/ ManyTrackFile(mid)
    /\ ticks_per_beat \in Resolutions
    /\ pc = "extract_drums"
    /\ track_idx = 1
    /\ drum_audicles = <<>>
    /\ audicles = <<>>
    /\ output = <<>>
    /\ result = ""
    /\ err = "none"

\* Line 144, the call returns
ExtractDrums ==
    /\ pc = "extract_drums"
    /\ ~drum_raises(mid, ticks_per_beat)
    /\ drum_audicles' = extract_drum_audicles(mid, ticks_per_beat)
    /\ pc' = "tracks"
    /\ UNCHANGED <<mid, ticks_per_beat, track_idx, audicles, output, result, err>>

\* Line 144, the call raises at line 50
ExtractDrumsRaises ==
    /\ pc = "extract_drums"
    /\ drum_raises(mid, ticks_per_beat)
    /\ pc' = "crashed"
    /\ err' = "ZeroDivisionError"
    /\ UNCHANGED <<mid, ticks_per_beat, track_idx, drum_audicles, audicles,
                   output, result>>

\* Lines 145-151: a track is_drum_track takes out of the melodic encoding
SkipDrumTrack ==
    /\ pc = "tracks"
    /\ track_idx <= Len(mid)
    /\ is_drum_track(mid[track_idx])
    /\ track_idx' = track_idx + 1
    /\ UNCHANGED <<mid, ticks_per_beat, pc, drum_audicles, audicles, output,
                   result, err>>

\* Lines 145-154: any other track, encoded
EncodeTrack ==
    /\ pc = "tracks"
    /\ track_idx <= Len(mid)
    /\ ~is_drum_track(mid[track_idx])
    /\ ~track_raises(mid[track_idx], ticks_per_beat)
    /\ LET audicle == track_to_audicle(mid[track_idx], ticks_per_beat)
       IN  audicles' = IF audicle # None THEN Append(audicles, audicle)
                       ELSE audicles
    /\ track_idx' = track_idx + 1
    /\ UNCHANGED <<mid, ticks_per_beat, pc, drum_audicles, output, result, err>>

\* Line 152, the call raises at line 91
EncodeTrackRaises ==
    /\ pc = "tracks"
    /\ track_idx <= Len(mid)
    /\ ~is_drum_track(mid[track_idx])
    /\ track_raises(mid[track_idx], ticks_per_beat)
    /\ pc' = "crashed"
    /\ err' = "ZeroDivisionError"
    /\ UNCHANGED <<mid, ticks_per_beat, track_idx, drum_audicles, audicles,
                   output, result>>

\* Lines 156-169
Assemble ==
    /\ pc = "tracks"
    /\ track_idx > Len(mid)
    /\ output' = assemble(drum_audicles, audicles)
    /\ result' = join(output', "\n")
    /\ pc' = "done"
    /\ UNCHANGED <<mid, ticks_per_beat, track_idx, drum_audicles, audicles, err>>

Next ==
    \/ ExtractDrums
    \/ ExtractDrumsRaises
    \/ SkipDrumTrack
    \/ EncodeTrack
    \/ EncodeTrackRaises
    \/ Assemble

Spec == Init /\ [][Next]_vars

\* ------------------------------------------------------------------------
\* Vocabulary of the properties
\* ------------------------------------------------------------------------

Done == pc = "done"

IsAttack(msg) == msg.type = "note_on" /\ msg.velocity > 0

IsRelease(msg) ==
    msg.type = "note_off" \/ (msg.type = "note_on" /\ msg.velocity = 0)

CarriesDrumChannel(track) ==
    \E i \in 1..Len(track) :
        "channel" \in DOMAIN track[i] /\ track[i].channel = 9

CarriesDrumChannelNote(track) ==
    \E i \in 1..Len(track) :
        /\ track[i].type \in {"note_on", "note_off"}
        /\ track[i].channel = 9

\* The run is over and track k has been through the melodic encoder, which
\* swept a grid for it
Swept(k) ==
    /\ Done
    /\ k \in 1..Len(mid)
    /\ ~CarriesDrumChannelNote(mid[k])
    /\ events_of_track(mid[k]) # <<>>
    /\ ticks_per_beat \div 4 > 0

TimelineOf(track) ==
    melodic_sweep(events_of_track(track), ticks_per_beat \div 4).timeline

\* The audicles of the tracks outside the set percussion (of track numbers),
\* in track order, from track k on
RECURSIVE MelodicLinesFrom(_, _, _, _)
MelodicLinesFrom(tracks, tpb, percussion, k) ==
    IF k > Len(tracks) THEN <<>>
    ELSE (IF k \in percussion \/ track_to_audicle(tracks[k], tpb) = None
          THEN <<>>
          ELSE <<track_to_audicle(tracks[k], tpb)>>)
         \o MelodicLinesFrom(tracks, tpb, percussion, k + 1)

\* The melodic audicles when the percussion tracks are those with a note
\* message on channel 9
MelodicLines ==
    MelodicLinesFrom(mid, ticks_per_beat,
                     {k \in 1..Len(mid) : CarriesDrumChannelNote(mid[k])}, 1)

Range(seq) == {seq[i] : i \in 1..Len(seq)}

\* ------------------------------------------------------------------------
\* C1
\* ------------------------------------------------------------------------

\* C1: with two or more audicles the document's lines are the header line,
\* the opening quote-marker line, every drum audicle in the drum encoder's
\* order, every melodic audicle in track order, and the closing quote-marker
\* line, and the document is these lines joined by newlines.
C1_EnvelopeOrder ==
    Done =>
        LET d == extract_drum_audicles(mid, ticks_per_beat)
            m == MelodicLines
        IN  Len(d) + Len(m) >= 2 =>
                /\ output = <<Header, QuoteMarker>> \o d \o m \o <<QuoteMarker>>
                /\ Len(output) = Len(d) + Len(m) + 3
                /\ result = join(<<Header, QuoteMarker>> \o d \o m \o <<QuoteMarker>>, "\n")

\* One drum audicle and two different melodic audicles, assembled
C1_Witness ==
    /\ Done
    /\ Len(drum_audicles) = 1
    /\ Len(audicles) = 2
    /\ audicles[1] # audicles[2]
    /\ Len(output) = 6

\* ------------------------------------------------------------------------
\* C2
\* ------------------------------------------------------------------------

SingleSnareHit == <<<<note_on(9, 38, 80, 0)>>>>

\* C2: with exactly one audicle there is no header and no quote-marker line;
\* a lone melodic audicle is the whole document, a lone drum audicle is
\* written twice, the two copies joined by a newline; one hit of pitch 38,
\* velocity 80, at 480 ticks per beat gives "(*|)\n(*|)".
C2_SingleAudicle ==
    /\ Done =>
        LET d == extract_drum_audicles(mid, ticks_per_beat)
            m == MelodicLines
        IN  Len(d) + Len(m) = 1 =>
                /\ Header \notin Range(output)
                /\ QuoteMarker \notin Range(output)
                /\ m # <<>> => output = <<m[1]>> /\ result = m[1]
                /\ m = <<>> => /\ output = <<d[1], d[1]>>
                               /\ result = d[1] \o "\n" \o d[1]
    /\ (Done /\ mid = SingleSnareHit /\ ticks_per_beat = 480)
           => result = "(*|)\n(*|)"

\* The single snare hit at 480 ticks per beat, assembled
C2_Witness ==
    /\ Done
    /\ mid = SingleSnareHit
    /\ ticks_per_beat = 480
    /\ drum_audicles = <<"(*|)">>
    /\ audicles = <<>>
    /\ Len(output) = 2

\* ------------------------------------------------------------------------
\* C3
\* ------------------------------------------------------------------------

\* Messages i and i+1 of the track are at the same tick, one a release and
\* the other an attack of a different pitch
SameTickPair(track, i) ==
    /\ i \in 1..(Len(track) - 1)
    /\ track[i + 1].time = 0
    /\ \/ IsRelease(track[i]) /\ IsAttack(track[i + 1])
       \/ IsAttack(track[i]) /\ IsRelease(track[i + 1])
    /\ track[i].note # track[i + 1].note

\* The same track with the two messages in the other order, each tick kept
Swapped(track, i) ==
    [track EXCEPT ![i]     = [track[i + 1] EXCEPT !.time = track[i].time],
                  ![i + 1] = [track[i] EXCEPT !.time = track[i + 1].time]]

\* The tick of message i, and the slot of the sixteenth-note grid it is in
RECURSIVE TickOf(_, _)
TickOf(track, i) == IF i = 0 THEN 0 ELSE TickOf(track, i - 1) + track[i].time

SlotOfMessage(track, i) == TickOf(track, i) \div (ticks_per_beat \div 4)

\* The tokens of every slot of the swept grid, before the trailing trim
RawTokens(track) == mida_tokens(TimelineOf(track), {})

\* C3 as stated: swapping a same-tick release of pitch p and attack of a
\* different pitch q changes the token of the slot that holds the tick.
C3_OrderChangesToken ==
    \A k \in 1..Len(mid) : Swept(k) =>
        \A i \in 1..Len(mid[k]) : SameTickPair(mid[k], i) =>
            RawTokens(mid[k])[SlotOfMessage(mid[k], i) + 1]
                # RawTokens(Swapped(mid[k], i))[SlotOfMessage(mid[k], i) + 1]

\* C3 amended: swapping a same-tick release of pitch p and attack of a
\* different pitch q (consecutive messages) changes no slot's held set, no
\* token and not the audicle.
C3_OrderOfDifferentPitchesIrrelevant ==
    \A k \in 1..Len(mid) : Swept(k) =>
        \A i \in 1..Len(mid[k]) : SameTickPair(mid[k], i) =>
            /\ TimelineOf(Swapped(mid[k], i)) = TimelineOf(mid[k])
            /\ RawTokens(Swapped(mid[k], i)) = RawTokens(mid[k])
            /\ track_to_audicle(Swapped(mid[k], i), ticks_per_beat)
                   = track_to_audicle(mid[k], ticks_per_beat)

\* An encoded track in which a held pitch is released and, at the same tick,
\* another pitch is attacked
C3_Witness ==
    /\ Done
    /\ \E k \in 1..Len(mid) :
        /\ Swept(k)
        /\ \E i \in 2..Len(mid[k]) :
            /\ SameTickPair(mid[k], i)
            /\ IsRelease(mid[k][i])
            /\ IsAttack(mid[k][i - 1])
            /\ mid[k][i - 1].note = mid[k][i].note
            /\ track_to_audicle(mid[k], ticks_per_beat) \in Range(audicles)

\* ------------------------------------------------------------------------
\* C4
\* ------------------------------------------------------------------------

\* C4 as stated: a track is classified percussion iff some message of any
\* type carries channel 9, and such a track is kept from the melodic encoder.
C4_AnyMessageOnChannel9 ==
    /\ \A k \in 1..Len(mid) : k < track_idx =>
        (is_drum_track(mid[k]) <=> CarriesDrumChannel(mid[k]))
    /\ Done =>
        audicles = MelodicLinesFrom(mid, ticks_per_beat,
                       {k \in 1..Len(mid) : CarriesDrumChannel(mid[k])}, 1)

\* C4 amended: a track is classified percussion iff some note_on or note_off
\* message of it carries channel 9; a track whose only channel-9 messages are
\* non-note messages is not percussion and goes through the melodic encoder.
C4_NoteMessageOnChannel9 ==
    /\ \A k \in 1..Len(mid) : k < track_idx =>
        (is_drum_track(mid[k]) <=> CarriesDrumChannelNote(mid[k]))
    /\ \A k \in 1..Len(mid) :
        (k < track_idx /\ CarriesDrumChannel(mid[k])
                       /\ ~CarriesDrumChannelNote(mid[k])
                       /\ track_to_audicle(mid[k], ticks_per_beat) # None)
            => track_to_audicle(mid[k], ticks_per_beat) \in Range(audicles)
    /\ Done => audicles = MelodicLines

\* A track whose only channel-9 message is a control change, encoded as a
\* melodic track
C4_Witness ==
    /\ Done
    /\ \E k \in 1..Len(mid) :
        /\ CarriesDrumChannel(mid[k])
        /\ ~CarriesDrumChannelNote(mid[k])
        /\ track_to_audicle(mid[k], ticks_per_beat) # None
        /\ audicles = <<track_to_audicle(mid[k], ticks_per_beat)>>

\* ------------------------------------------------------------------------
\* C5
\* ------------------------------------------------------------------------

\* C5: for every positive resolution the percussion slot width (resolution
\* div 2) and the melodic slot width (resolution div 4) are positive where an
\* encoder divides by them, and no encoder divides by zero.
C5_SlotTicksPositive ==
    ticks_per_beat > 0 =>
        /\ err # "ZeroDivisionError"
        /\ (pc \in {"tracks", "done"} /\ drum_events(mid) # <<>>)
               => quantize_ticks(ticks_per_beat, TRUE) > 0
        /\ \A k \in 1..Len(mid) :
               (k < track_idx /\ ~is_drum_track(mid[k])
                              /\ events_of_track(mid[k]) # <<>>)
                   => ticks_per_beat \div 4 > 0

\* ------------------------------------------------------------------------
\* C6
\* ------------------------------------------------------------------------

\* The output grammar, token by token
AccentToken == {"^|", "v|", "*|"}

DrumSlot ==
         {"_"}
    \cup AccentToken
    \cup {"{" \o join(g, " ") \o "}" :
             g \in UNION {[1..n -> AccentToken] : n \in 1..(MaxLen + MaxMsgs)}}

PitchToken ==
    {l \o a \o ToString(o) :
        l \in {"A", "B", "C", "D", "E", "F", "G"}, a \in {"", "#"}, o \in -1..9}

MelodicSlot ==
         {".", "-"}
    \cup PitchToken
    \cup {c[1] \o "~" \o c[2] : c \in PitchToken \X PitchToken}

\* The token lists the two encoders wrapped into lines for this file
DrumTokenLists ==
    LET hits == drum_events(mid)
        eighth_ticks == quantize_ticks(ticks_per_beat, TRUE)
    IN  IF hits = <<>> THEN {}
        ELSE {drum_tokens(hits, n, eighth_ticks,
                          slot_count(drum_total_ticks(hits), eighth_ticks))
                  : n \in drum_notes(hits)}

MelodicTokenLists ==
    {melodic_tokens(TimelineOf(mid[k])) : k \in {j \in 1..Len(mid) : Swept(j)}}

\* line parses as DrumAudicle = '(' DrumSlot (' ' DrumSlot)* ')'
IsDrumAudicle(line) ==
    \E tokens \in DrumTokenLists :
        /\ tokens # <<>>
        /\ \A i \in 1..Len(tokens) : tokens[i] \in DrumSlot
        /\ line = "(" \o join(tokens, " ") \o ")"

\* line parses as MelodicAudicle = '*' MelodicSlot (' ' MelodicSlot)* '*'
IsMelodicAudicle(line) ==
    \E tokens \in MelodicTokenLists :
        /\ tokens # <<>>
        /\ \A i \in 1..Len(tokens) : tokens[i] \in MelodicSlot
        /\ line = "*" \o join(tokens, " ") \o "*"

IsEnvelope(lines) ==
    /\ Len(lines) >= 3
    /\ lines[1] = Header
    /\ lines[2] = QuoteMarker
    /\ lines[Len(lines)] = QuoteMarker
    /\ \E j \in 2..(Len(lines) - 1) :
        /\ \A i \in 3..j : IsDrumAudicle(lines[i])
        /\ \A i \in (j + 1)..(Len(lines) - 1) : IsMelodicAudicle(lines[i])

\* C6: the document is the no-tracks line, or exactly one audicle line, or
\* the envelope: header line, quote-marker line, drum audicle lines, melodic
\* audicle lines, quote-marker line.
C6_DocumentGrammar ==
    Done =>
        /\ result = join(output, "\n")
        /\ \/ output = <<NoTracks>>
           \/ Len(output) = 1 /\ (IsDrumAudicle(output[1]) \/ IsMelodicAudicle(output[1]))
           \/ IsEnvelope(output)

\* ------------------------------------------------------------------------
\* C7
\* ------------------------------------------------------------------------

\* The slots of the shared drum grid of this file
DrumSlotCount ==
    slot_count(drum_total_ticks(drum_events(mid)),
               quantize_ticks(ticks_per_beat, TRUE))

\* seq without its element at position pos
Without(seq, pos) ==
    SubSeq(seq, 1, pos - 1) \o SubSeq(seq, pos + 1, Len(seq))

\* n all-silent melodic slots
Silent(n) == [i \in 1..n |-> {}]

\* A hit of a pitch no track plays, in a track of its own, delta ticks in
PaddedFile(delta) == Append(mid, <<note_on(9, 42, 80, delta)>>)

\* The place of pitch 42 among the drum pitches of the file
PadPlace == 1 + Cardinality({n \in drum_notes(drum_events(mid)) : n < 42})

\* C7: trailing silent slots never change an audicle.  Drum encoder: a later
\* hit of another pitch, which lengthens the shared grid, leaves the lines of
\* the file's own pitches as they were, and so do extra slots given to one
\* pitch's grid.  Melodic encoder: silent slots appended to a swept timeline,
\* and a later release appended to a track that ends with nothing held, leave
\* the audicle as it was.  No emitted drum line ends in the token "_" and no
\* emitted melodic line in the token ".".
C7_TrailingTrim ==
    /\ (Done /\ drum_events(mid) # <<>>) =>
        /\ \A delta \in {0, 960} :
            LET padded == extract_drum_audicles(PaddedFile(delta), ticks_per_beat)
            IN  /\ Len(padded) = Len(drum_audicles) + 1
                /\ Without(padded, PadPlace) = drum_audicles
        /\ \A n \in drum_notes(drum_events(mid)) : \A extra \in 1..2 :
            drum_tokens(drum_events(mid), n,
                        quantize_ticks(ticks_per_beat, TRUE), DrumSlotCount + extra)
              = drum_tokens(drum_events(mid), n,
                            quantize_ticks(ticks_per_beat, TRUE), DrumSlotCount)
        /\ \A tokens \in DrumTokenLists :
            tokens # <<>> /\ tokens[Len(tokens)] # "_"
        /\ \A i \in 1..Len(drum_audicles) :
            \E tokens \in DrumTokenLists :
                drum_audicles[i] = "(" \o join(tokens, " ") \o ")"
    /\ \A k \in 1..Len(mid) : Swept(k) =>
        LET timeline == TimelineOf(mid[k])
            tokens   == melodic_tokens(timeline)
            audicle  == track_to_audicle(mid[k], ticks_per_beat)
        IN  /\ \A extra \in 1..2 :
                render_timeline(timeline \o Silent(extra)) = audicle
            /\ timeline[Len(timeline)] = {} =>
                \A q \in {42, 60}, delta \in {0, 480} :
                    track_to_audicle(Append(mid[k], note_off(0, q, delta)),
                                     ticks_per_beat) = audicle
            /\ tokens # <<>> =>
                /\ tokens[Len(tokens)] # "."
                /\ audicle = "*" \o join(tokens, " ") \o "*"
                /\ audicle \in Range(audicles)

\* A drum line and a melodic line, each shorter than its grid: both encoders
\* trimmed trailing slots
C7_Witness ==
    /\ Done
    /\ drum_events(mid) # <<>>
    /\ \E tokens \in DrumTokenLists : Len(tokens) < DrumSlotCount
    /\ \E k \in 1..Len(mid) :
        /\ Swept(k)
        /\ melodic_tokens(TimelineOf(mid[k])) # <<>>
        /\ Len(melodic_tokens(TimelineOf(mid[k]))) < Len(TimelineOf(mid[k]))
        /\ track_to_audicle(mid[k], ticks_per_beat) \in Range(audicles)

\* ------------------------------------------------------------------------
\* C8
\* ------------------------------------------------------------------------

\* The names of the pitches of a non-empty set, ascending by pitch, joined
\* by "~"
AscendingNames(notes) ==
    LET asc == CHOOSE f \in [1..Cardinality(notes) -> notes] :
                   \A i, j \in 1..Cardinality(notes) : i < j => f[i] < f[j]
    IN  join([i \in 1..Cardinality(notes) |-> midi_note_to_mida(asc[i])], "~")

HeldBeat == <<<<note_on(0, 60, 80, 0), note_off(0, 60, 480)>>>>

\* C8: the token of slot k is "." iff nothing is held in slot k, "-" iff
\* something is held and it is what slot k-1 held, and otherwise the names of
\* the held pitches ascending by pitch, joined by "~"; so "-" is never the
\* first token and never follows "."; pitch 60 attacked at tick 0 and
\* released at tick 480, at 480 ticks per beat, gives "*C4 - - -*".
C8_SustainCompression ==
    /\ \A n \in 1..Len(mid) : Swept(n) =>
        LET timeline == TimelineOf(mid[n])
            tokens   == RawTokens(mid[n])
            Before(k) == IF k = 1 THEN {} ELSE timeline[k - 1]
        IN  /\ Len(tokens) = Len(timeline)
            /\ \A k \in 1..Len(timeline) :
                /\ tokens[k] = "." <=> timeline[k] = {}
                /\ tokens[k] = "-" <=>
                       (timeline[k] # {} /\ k > 1 /\ timeline[k] = timeline[k - 1])
                /\ (timeline[k] # {} /\ timeline[k] # Before(k))
                       => tokens[k] = AscendingNames(timeline[k])
                /\ k > 1 /\ tokens[k - 1] = "." => tokens[k] # "-"
            /\ tokens[1] # "-"
            /\ track_to_audicle(mid[n], ticks_per_beat) # None =>
                track_to_audicle(mid[n], ticks_per_beat)
                    = "*" \o join(trim_trailing(tokens, "."), " ") \o "*"
    /\ (Done /\ mid = HeldBeat /\ ticks_per_beat = 480)
           => audicles = <<"*C4 - - -*">> /\ result = "*C4 - - -*"

\* Pitch 60 held for one beat at 480 ticks per beat, encoded and assembled
C8_Witness ==
    /\ Done
    /\ mid = HeldBeat
    /\ ticks_per_beat = 480
    /\ Len(TimelineOf(mid[1])) = 5
    /\ result = "*C4 - - -*"

\* ------------------------------------------------------------------------
\* C9
\* ------------------------------------------------------------------------

\* The pitches with a note_on of positive velocity on channel 9 in any track
HitPitches ==
    UNION { {mid[k][i].note : i \in {j \in 1..Len(mid[k]) :
                                     /\ mid[k][j].type = "note_on"
                                     /\ mid[k][j].channel = 9
                                     /\ mid[k][j].velocity > 0}}
            : k \in 1..Len(mid) }

\* The line of one pitch on the shared grid
LineOfPitch(n) ==
    "(" \o join(drum_tokens(drum_events(mid), n,
                            quantize_ticks(ticks_per_beat, TRUE), DrumSlotCount),
                " ") \o ")"

\* C9: the drum encoder emits one audicle for each pitch hit on channel 9 in
\* any track, in strictly ascending pitch order whatever the order the hits
\* were met in, and none when there is no hit.
C9_DrumLinesByPitch ==
    Done =>
        /\ Len(drum_audicles) = Cardinality(HitPitches)
        /\ \A i \in 1..Len(drum_audicles) :
            \E n \in HitPitches :
                /\ Cardinality({q \in HitPitches : q < n}) = i - 1
                /\ drum_audicles[i] = LineOfPitch(n)

\* Two pitches hit, the higher met first, in different tracks, and two
\* different lines emitted
C9_Witness ==
    /\ Done
    /\ Len(drum_audicles) = 2
    /\ drum_audicles[1] # drum_audicles[2]
    /\ Len(drum_events(mid)) = 2
    /\ drum_events(mid)[1].note > drum_events(mid)[2].note
    /\ Len(mid) >= 2
    /\ track_drum_hits(mid[1], 1, 0) # <<>>
    /\ Len(track_drum_hits(mid[1], 1, 0)) = 1

\* ------------------------------------------------------------------------
\* C10
\* ------------------------------------------------------------------------

\* The held set after every event of the track, applied in order
RECURSIVE HeldAfter(_, _)
HeldAfter(events, n) ==
    IF n = 0 THEN {}
    ELSE IF events[n].evtype = "on" THEN HeldAfter(events, n - 1) \cup {events[n].note}
    ELSE HeldAfter(events, n - 1) \ {events[n].note}

\* C10: the grid covers every event.  Drum encoder: the slot of every pooled
\* hit is one of 0..slot_count-1.  Melodic encoder: when the last slot is
\* snapshotted every event has been consumed, and the last slot holds what
\* is held after all attacks and releases.
C10_GridCoverage ==
    /\ (Done /\ drum_events(mid) # <<>>) =>
        \A i \in 1..Len(drum_events(mid)) :
            /\ drum_slot(drum_events(mid)[i].abs_time,
                         quantize_ticks(ticks_per_beat, TRUE)) >= 0
            /\ drum_slot(drum_events(mid)[i].abs_time,
                         quantize_ticks(ticks_per_beat, TRUE)) <= DrumSlotCount - 1
    /\ \A k \in 1..Len(mid) : Swept(k) =>
        LET events == events_of_track(mid[k])
            swept  == melodic_sweep(events, ticks_per_beat \div 4)
        IN  /\ swept.event_idx = Len(events)
            /\ Len(swept.timeline) >= 1
            /\ swept.timeline[Len(swept.timeline)] = HeldAfter(events, Len(events))

\* A drum hit and a melodic event, each on the first tick of the last slot
\* of its grid (the tick a grid one slot shorter would not cover)
C10_Witness ==
    /\ Done
    /\ drum_events(mid) # <<>>
    /\ drum_total_ticks(drum_events(mid)) > 0
    /\ drum_total_ticks(drum_events(mid))
           = (DrumSlotCount - 1) * quantize_ticks(ticks_per_beat, TRUE)
    /\ \E k \in 1..Len(mid) :
        /\ Swept(k)
        /\ total_ticks_of(events_of_track(mid[k])) > 0
        /\ total_ticks_of(events_of_track(mid[k]))
               = (Len(TimelineOf(mid[k])) - 1) * (ticks_per_beat \div 4)

====
